---- MODULE Spec2Model ----
(***************************************************************************)
(* The psiagram Paper coordinator (Paper.base.ts) and its event pipeline   *)
(* (PaperEvent), as a state machine.                                       *)
(*                                                                         *)
(* Execution is single-threaded and synchronous, but re-entrant: a public  *)
(* call fires an event, the event's listeners run, and the event's default *)
(* action may itself call back into the Paper.  The JavaScript call stack  *)
(* is the variable `stack`; a step of the model runs the code of the       *)
(* topmost frame up to the next point where control passes to a listener   *)
(* or to a nested firing.  Listeners are arbitrary user code: each         *)
(* invocation chooses its operations nondeterministically.                 *)
(*                                                                         *)
(* An operation of the source is an operator from a world record (the      *)
(* Paper's fields plus the stack) to a world record, so that a handler     *)
(* that calls another handler is the composition of the two; an action     *)
(* commits the world its operation returns.                                *)
(***************************************************************************)
EXTENDS Integers, Sequences, FiniteSets, TLC

\* ------------------------------------------------------------- bounds ----

\* Operations one listener invocation may perform before it returns.
MaxOps == 2

\* Frames on the stack below which a listener may still start a nested call.
MaxDepth == 5

\* ------------------------------------------------------------ domains ----

NodeIds == {"n1", "n2"}

\* A property name every JavaScript object inherits from Object.prototype:
\* `this._nodes["constructor"]` is a function although no node has that id.
ProtoNames == {"constructor"}

EdgeIds == {"e1", "e2"}

ListenerFns == {"L1", "L2"}

EventTypes ==
    {"add-node", "move-node", "remove-node", "add-edge", "move-edge",
     "remove-edge", "update-active-item"}

GridSizes == {2}

CoordsA == [x |-> 3, y |-> 5]

CoordsB == [x |-> 2, y |-> 2]

NodeRef(id) == [id |-> id]

LiteralPoint == [x |-> 4, y |-> 1]

ItemA == [elementType |-> "node", id |-> "n1", paperItemState |-> "selected"]

ItemB == [elementType |-> "node", id |-> "n1", paperItemState |-> "moving"]

NoItem == [null |-> TRUE]

NoAct == [op |-> "none"]

NoPos == [unset |-> TRUE]

\* No text-shape node is under study.
NoShape == [none |-> TRUE]

\* What a call that returns nothing returns.
NoRet == [void |-> TRUE]

\* ----------------------------------------------------------- variables ---

VARIABLES
    nodes,       \* _nodes: id -> stored node (coords, instance)
    edges,       \* _edges: stored edges in key (insertion) order
    activeItem,  \* _activeItem
    listeners,   \* _listeners: event type -> listener functions in order
    gridSize,    \* _gridSize
    paper,       \* children of the svg draw surface, first to last
    stack,       \* the call stack: firings, listeners, running default actions
    call,        \* history: the public call in progress or last completed
    added,       \* history: ids whose addNode succeeded, minus those removed
    shape        \* a text-shape node outside any Paper: its _properties

vars == <<nodes, edges, activeItem, listeners, gridSize, paper, stack, call, added,
          shape>>

\* ------------------------------------------------------------- helpers ---

Max(a, b) == IF a >= b THEN a ELSE b

Last(s) == s[Len(s)]

Pop(s) == SubSeq(s, 1, Len(s) - 1)

\* obj[key] = value on a plain object.
Put(f, key, val) == [x \in DOMAIN f \cup {key} |-> IF x = key THEN val ELSE f[x]]

\* delete obj[key]
Del(f, key) == [x \in DOMAIN f \ {key} |-> f[x]]

HasEdge(e, id) == \E k \in 1..Len(e) : e[k].id = id

EdgeAt(e, id) == e[CHOOSE k \in 1..Len(e) : e[k].id = id]

\* Object.keys(this._edges)
EdgeKeys(e) == [k \in 1..Len(e) |-> e[k].id]

\* this._edges[id] = rec: an existing key keeps its place, a new one is last.
EdgePut(e, rec) ==
    IF HasEdge(e, rec.id)
    THEN [k \in 1..Len(e) |-> IF e[k].id = rec.id THEN rec ELSE e[k]]
    ELSE Append(e, rec)

EdgeDel(e, id) == SelectSeq(e, LAMBDA r : r.id # id)

\* endpoint.hasOwnProperty('id')
IsNodeRef(p) == "id" \in DOMAIN p

\* The test of removeNode and _setNodeCoords: the edge uses node id as an end.
RefersTo(edge, id) ==
    \/ IsNodeRef(edge.source) /\ edge.source.id = id
    \/ IsNodeRef(edge.target) /\ edge.target.id = id

\* What `this._nodes[id]` evaluates to: a stored node, a member inherited
\* from Object.prototype (truthy, not a node), or undefined.
NodeLookup(n, id) ==
    IF id \in DOMAIN n THEN "node"
    ELSE IF id \in ProtoNames THEN "inherited"
    ELSE "undefined"

Handle(kind, id, tok) == [kind |-> kind, id |-> id, tok |-> tok]

\* parent.appendChild(h): an attached child moves to the end.
AppendChild(p, h) == Append(SelectSeq(p, LAMBDA c : c # h), h)

\* parent.insertBefore(h, parent.firstChild)
InsertFirst(p, h) == <<h>> \o SelectSeq(p, LAMBDA c : c # h)

\* element.remove()
RemoveChild(p, h) == SelectSeq(p, LAMBDA c : c # h)

\* Identity of a freshly constructed instance: the least token no live
\* object of that id carries (objects are compared by reference).
NodeToks(w, id) ==
    {w.n[x].tok : x \in DOMAIN w.n \cap {id}}
        \cup {w.s[k].act.tok : k \in {k \in 1..Len(w.s) :
                  /\ w.s[k].k = "fire"
                  /\ w.s[k].act.op \in {"addNode", "moveNode"}
                  /\ w.s[k].act.id = id}}

EdgeToks(w, id) ==
    {w.e[k].tok : k \in {k \in 1..Len(w.e) : w.e[k].id = id}}
        \cup {w.s[k].act.tok : k \in {k \in 1..Len(w.s) :
                  /\ w.s[k].k = "fire"
                  /\ w.s[k].act.op \in {"addEdge", "moveEdge"}
                  /\ w.s[k].act.id = id}}
        \cup {w.s[k].tok : k \in {k \in 1..Len(w.s) :
                  /\ w.s[k].k = "act"
                  /\ w.s[k].op = "addEdge"
                  /\ w.s[k].id = id}}

Fresh(used) == CHOOSE t \in 1..(Cardinality(used) + 1) :
                   /\ t \notin used
                   /\ \A u \in 1..(t - 1) : u \in used

\* -------------------------------------------------------- geometry -------

\* roundToNearest(value, unit, minimum): nearest multiple of unit (halves
\* round up, as Math.round), floored at minimum; unit 0 returns the value.
roundToNearest(value, unit, minimum) ==
    IF unit = 0 THEN value
    ELSE Max(((2 * value + unit) \div (2 * unit)) * unit, minimum)

\* roundToNearest(value, unit) with the minimum left to its default.
roundToNearestDefault(value, unit) == roundToNearest(value, unit, unit)

\* areCoordsEqual(a, b): exact component-wise equality.
areCoordsEqual(a, b) == a.x = b.x /\ a.y = b.y

\* ------------------------------------------------------------ worlds -----

Snap == [n |-> nodes, e |-> edges, a |-> activeItem, p |-> paper, l |-> listeners]

World ==
    [n |-> nodes, e |-> edges, a |-> activeItem, l |-> listeners, p |-> paper,
     s |-> stack, c |-> call, err |-> "none"]

\* `throw new PaperError(code, ...)`, or a TypeError raised by the runtime.
\* Nothing in the Paper catches: the exception leaves every frame.
Raise(w, code) == [w EXCEPT !.err = code]

\* The world at the start of a public call made by the host application.
Begin(op, id, arg) ==
    [World EXCEPT !.c = [op |-> op, id |-> id, arg |-> arg, pre |-> Snap,
                         result |-> "pending", events |-> <<>>,
                         lis |-> 0, veto |-> FALSE, ret |-> NoRet]]

\* The world when the listener on top of the stack performs one operation.
Tick == [World EXCEPT !.s[Len(stack)].ops = @ + 1]

Commit(w) ==
    LET thrown == w.err # "none"
        done   == thrown \/ w.s = <<>>
        res    == IF thrown THEN w.err ELSE IF done THEN "ok" ELSE w.c.result
    IN  /\ nodes' = w.n
        /\ edges' = w.e
        /\ activeItem' = w.a
        /\ listeners' = w.l
        /\ paper' = w.p
        /\ stack' = IF thrown THEN <<>> ELSE w.s
        /\ call' = [w.c EXCEPT !.result = res]
        /\ added' = IF res = "ok" /\ w.c.op = "addNode" THEN added \cup {w.c.id}
                    ELSE IF res = "ok" /\ w.c.op = "removeNode" THEN added \ {w.c.id}
                    ELSE added
        /\ UNCHANGED <<gridSize, shape>>

\* ------------------------------------------------- PaperEvent ------------

\* new PaperEvent(type, {paper, target, data, defaultAction}): canPropagate
\* starts true.  The event lives in the frame of its firing; i, n and pc are
\* the position of _fireEvent; snap, inv, runs, calls, veto, late, stop
\* are history (calls counts the `evt.defaultAction()` of _fireEvent, runs
\* the executions of the closure, late tells a preventDefault() made after
\* the closure ran).
NewEvent(type, tgt, act, ls) ==
    [k |-> "fire", type |-> type, tgt |-> tgt, act |-> act, can |-> TRUE,
     i |-> 1, n |-> Len(ls), pc |-> "loop",
     snap |-> ls, inv |-> <<>>, runs |-> 0, calls |-> 0, veto |-> FALSE,
     late |-> FALSE, stop |-> 0]

\* preventDefault() that leaves the closure in place.
preventDefault_keepsClosure(w, j) ==
    [w EXCEPT !.s[j].veto = @ \/ (w.s[j].act.op # "none" /\ w.s[j].runs = 0),
              !.s[j].late = @ \/ w.s[j].runs >= 1,
              !.c.veto = @ \/ (j = 1 /\ w.s[j].act.op # "none" /\ w.s[j].runs = 0)]

\* preventDefault() that, called after the closure ran, puts the registries,
\* the active item and the draw surface back as they were before the call.
preventDefault_undoes(w, j) ==
    LET ran == w.s[j].runs >= 1
    IN  [w EXCEPT !.s[j].act = NoAct,
                  !.s[j].late = @ \/ ran,
                  !.s[j].veto = @ \/ (w.s[j].act.op # "none" /\ ~ran),
                  !.c.veto = @ \/ (j = 1 /\ w.s[j].act.op # "none" /\ ~ran),
                  !.n = IF ran THEN w.c.pre.n ELSE @,
                  !.e = IF ran THEN w.c.pre.e ELSE @,
                  !.a = IF ran THEN w.c.pre.a ELSE @,
                  !.p = IF ran THEN w.c.pre.p ELSE @]

\* evt.preventDefault(): this._defaultAction = undefined.
preventDefault(w, j) ==
    [w EXCEPT !.s[j].act = NoAct,
              !.s[j].late = @ \/ w.s[j].runs >= 1,
              !.s[j].veto = @ \/ (w.s[j].act.op # "none" /\ w.s[j].runs = 0),
              !.c.veto = @ \/ (j = 1 /\ w.s[j].act.op # "none" /\ w.s[j].runs = 0)]

\* evt.stopPropagation(): this.canPropagate = false.
stopPropagation(w, j) ==
    [w EXCEPT !.s[j].can = FALSE,
              !.s[j].stop = IF @ = 0 THEN Len(w.s[j].inv) ELSE @]

\* _fireEvent on an event whose canPropagate is that of the firing in
\* progress around it, instead of the true its constructor sets.
fireEvent_inheritsFlag(w, type, tgt, act) ==
    LET outer == {k \in 1..Len(w.s) : w.s[k].k = "fire"}
        can   == \A k \in outer : w.s[k].can
    IN  [w EXCEPT !.s = Append(@, [NewEvent(type, tgt, act, w.l[type]) EXCEPT !.can = can]),
                  !.c.events = Append(@, <<type, tgt>>)]

\* _fireEvent(evt), entry: the forEach over this._listeners[type] fixes its
\* range when it starts; the array itself stays live.
fireEvent(w, type, tgt, act) ==
    [w EXCEPT !.s = Append(@, NewEvent(type, tgt, act, w.l[type])),
              !.c.events = Append(@, <<type, tgt>>)]

\* The forEach of _fireEvent calling the listener whatever canPropagate is.
forEachListener_ignoresPropagation(w) ==
    LET j  == Len(w.s)
        f  == w.s[j]
        ls == w.l[f.type]
    IN  IF f.i <= Len(ls)
        THEN [w EXCEPT !.s = Append([@ EXCEPT ![j].i = f.i + 1,
                                              ![j].inv = Append(f.inv, ls[f.i])],
                                    [k |-> "lis", l |-> ls[f.i], ev |-> j, ops |-> 0]),
                       !.c.lis = @ + 1]
        ELSE [w EXCEPT !.s[j].i = f.i + 1]

\* One iteration of the forEach of _fireEvent: index i is visited when the
\* array still has it; `if (evt.canPropagate) listener(evt)`.
forEachListener(w) ==
    LET j  == Len(w.s)
        f  == w.s[j]
        ls == w.l[f.type]
    IN  IF f.i <= Len(ls) /\ f.can
        THEN [w EXCEPT !.s = Append([@ EXCEPT ![j].i = f.i + 1,
                                              ![j].inv = Append(f.inv, ls[f.i])],
                                    [k |-> "lis", l |-> ls[f.i], ev |-> j, ops |-> 0]),
                       !.c.lis = @ + 1]
        ELSE [w EXCEPT !.s[j].i = f.i + 1]

\* ------------------------------------------------- edge routes -----------

\* _updateEdgeRoute(id).  getNodeMidpoint and getEdgeNodeIntersection read
\* the stored node's coords and instance: handed an inherited member
\* instead of a stored node they raise a TypeError.
updateEdgeRoute(w, id) ==
    IF ~HasEdge(w.e, id) THEN Raise(w, "E_NO_ID")
    ELSE LET edge == EdgeAt(w.e, id)
             src  == IF IsNodeRef(edge.source)
                     THEN NodeLookup(w.n, edge.source.id) ELSE "point"
             tgt  == IF IsNodeRef(edge.target)
                     THEN NodeLookup(w.n, edge.target.id) ELSE "point"
         IN  IF src = "undefined" \/ tgt = "undefined" THEN Raise(w, "E_NO_ID")
             ELSE IF src = "inherited" \/ tgt = "inherited" THEN Raise(w, "TypeError")
             ELSE fireEvent(w, "move-edge", id,
                            [op |-> "moveEdge", id |-> id, tok |-> edge.tok])

\* Default action of move-edge: edge.instance.updatePath(...) on the edge
\* object the event captured.
moveEdgeAction(w, j) ==
    LET a == w.s[j].act
    IN  [w EXCEPT !.e = [k \in 1..Len(@) |->
                            IF @[k].id = a.id /\ @[k].tok = a.tok
                            THEN [@[k] EXCEPT !.drawn = TRUE] ELSE @[k]]]

\* ------------------------------------------------- nodes -----------------

\* addNode without the hasOwnProperty test on the id.
addNode_noDuplicateTest(w, node) ==
    LET tok == Fresh(NodeToks(w, node.id))
        newNode == [coords |-> node.coords, tok |-> tok,
                    ref |-> node.ref, pos |-> NoPos]
        roundedX == roundToNearestDefault(node.coords.x, gridSize)
        roundedY == roundToNearestDefault(node.coords.y, gridSize)
    IN  fireEvent(w, "add-node", node.id,
                  [op |-> "addNode", id |-> node.id, tok |-> tok,
                   node |-> newNode, rx |-> roundedX, ry |-> roundedY])

\* addNode writing the registry before it fires the event.
addNode_storesFirst(w, node) ==
    LET tok == Fresh(NodeToks(w, node.id))
        newNode == [coords |-> node.coords, tok |-> tok,
                    ref |-> node.ref, pos |-> NoPos]
    IN  IF node.id \in DOMAIN w.n THEN Raise(w, "E_DUP_ID")
        ELSE fireEvent([w EXCEPT !.n = Put(@, node.id, newNode)], "add-node", node.id,
                       [op |-> "addNode", id |-> node.id, tok |-> tok,
                        node |-> newNode,
                        rx |-> roundToNearestDefault(node.coords.x, gridSize),
                        ry |-> roundToNearestDefault(node.coords.y, gridSize)])

\* Paper.addNode(node)
addNode(w, node) ==
    IF node.id \in DOMAIN w.n THEN Raise(w, "E_DUP_ID")
    ELSE LET tok == Fresh(NodeToks(w, node.id))
             newNode == [coords |-> node.coords, tok |-> tok,
                         ref |-> node.ref, pos |-> NoPos]
             roundedX == roundToNearestDefault(node.coords.x, gridSize)
             roundedY == roundToNearestDefault(node.coords.y, gridSize)
         IN  fireEvent(w, "add-node", node.id,
                       [op |-> "addNode", id |-> node.id, tok |-> tok,
                        node |-> newNode, rx |-> roundedX, ry |-> roundedY])

\* Default action of add-node: the registry is written first, the element
\* is looked at afterwards.
addNodeAction(w, j) ==
    LET a  == w.s[j].act
        w1 == [w EXCEPT !.n = Put(@, a.id, a.node)]
    IN  IF a.node.ref
        THEN [w1 EXCEPT !.n[a.id].pos = [x |-> a.rx, y |-> a.ry],
                        !.p = AppendChild(@, Handle("node", a.id, a.tok))]
        ELSE Raise(w1, "E_INV_ELEM")

\* Paper.removeEdge(id)
removeEdge(w, id) ==
    IF HasEdge(w.e, id)
    THEN fireEvent(w, "remove-edge", id, [op |-> "removeEdge", id |-> id])
    ELSE Raise(w, "E_NO_ID")

\* Default action of remove-edge: reads this._edges[id] when it runs.
removeEdgeAction(w, j) ==
    LET id == w.s[j].act.id
    IN  IF ~HasEdge(w.e, id) THEN Raise(w, "TypeError")
        ELSE [w EXCEPT !.p = RemoveChild(@, Handle("edge", id, EdgeAt(w.e, id).tok)),
                       !.e = EdgeDel(@, id)]

\* Paper.removeNode(id)
removeNode(w, id) ==
    IF id \in DOMAIN w.n
    THEN fireEvent(w, "remove-node", id, [op |-> "removeNode", id |-> id])
    ELSE Raise(w, "E_NO_ID")

\* Default action of remove-node, from the frame on top of the stack: the
\* forEach over Object.keys(this._edges) (a copy of the keys; the edges are
\* read live), then the removal of the node.
RECURSIVE removeNodeLoop(_)
removeNodeLoop(w) ==
    LET top == Len(w.s)
        f   == w.s[top]
    IN  IF f.j > Len(f.keys)
        THEN IF f.id \notin DOMAIN w.n THEN Raise(w, "TypeError")
             ELSE IF ~w.n[f.id].ref THEN Raise(w, "TypeError")
             ELSE [w EXCEPT !.p = RemoveChild(@, Handle("node", f.id, w.n[f.id].tok)),
                            !.n = Del(@, f.id),
                            !.s = Pop(@)]
        ELSE LET edgeId == f.keys[f.j]
                 w1     == [w EXCEPT !.s[top].j = f.j + 1]
             IN  IF ~HasEdge(w.e, edgeId) THEN Raise(w, "TypeError")
                 ELSE IF RefersTo(EdgeAt(w.e, edgeId), f.id) THEN removeEdge(w1, edgeId)
                 ELSE removeNodeLoop(w1)

\* The default action of remove-node deleting the node before the cascade.
removeNodeAction_nodeFirst(w, j) ==
    removeNodeLoop([w EXCEPT !.n = Del(@, w.s[j].act.id),
                             !.s = Append(@,
        [k |-> "act", op |-> "removeNode", id |-> w.s[j].act.id, ev |-> j,
         keys |-> EdgeKeys(w.e), j |-> 1])])

removeNodeAction(w, j) ==
    removeNodeLoop([w EXCEPT !.s = Append(@,
        [k |-> "act", op |-> "removeNode", id |-> w.s[j].act.id, ev |-> j,
         keys |-> EdgeKeys(w.e), j |-> 1])])

\* Paper._setNodeCoords(id, newCoords), reached through instance.coords = ...
setNodeCoords(w, id, newCoords) ==
    IF id \notin DOMAIN w.n THEN Raise(w, "E_NO_ID")
    ELSE IF areCoordsEqual(w.n[id].coords, newCoords) THEN w
    ELSE fireEvent(w, "move-node", id,
                   [op |-> "moveNode", id |-> id, tok |-> w.n[id].tok,
                    ref |-> w.n[id].ref, coords |-> newCoords])

\* Default action of move-node after the node is written: the forEach over
\* Object.keys(this._edges) calling _updateEdgeRoute.
RECURSIVE moveNodeLoop(_)
moveNodeLoop(w) ==
    LET top == Len(w.s)
        f   == w.s[top]
    IN  IF f.j > Len(f.keys) THEN [w EXCEPT !.s = Pop(@)]
        ELSE LET edgeId == f.keys[f.j]
                 w1     == [w EXCEPT !.s[top].j = f.j + 1]
             IN  IF ~HasEdge(w.e, edgeId) THEN Raise(w, "TypeError")
                 ELSE IF RefersTo(EdgeAt(w.e, edgeId), f.id)
                      THEN updateEdgeRoute(w1, edgeId)
                 ELSE moveNodeLoop(w1)

\* Default action of move-node: `node` is the stored object the call read,
\* written whether or not it is still the one in the registry.
moveNodeAction(w, j) ==
    LET a    == w.s[j].act
        live == a.id \in DOMAIN w.n /\ w.n[a.id].tok = a.tok
        w1   == IF live THEN [w EXCEPT !.n[a.id].coords = a.coords] ELSE w
        w2   == IF live THEN [w1 EXCEPT !.n[a.id].pos = a.coords] ELSE w1
    IN  IF ~a.ref THEN Raise(w1, "TypeError")
        ELSE moveNodeLoop([w2 EXCEPT !.s = Append(@,
                 [k |-> "act", op |-> "moveNode", id |-> a.id, ev |-> j,
                  keys |-> EdgeKeys(w2.e), j |-> 1])])

\* ------------------------------------------------- edges -----------------

\* Paper.addEdge(edge)
addEdge(w, edge) ==
    IF HasEdge(w.e, edge.id) THEN Raise(w, "E_DUP_ID")
    ELSE LET tok == Fresh(EdgeToks(w, edge.id))
             hasValidSource ==
                 IF IsNodeRef(edge.source)
                 THEN NodeLookup(w.n, edge.source.id) # "undefined"
                 ELSE "x" \in DOMAIN edge.source
             hasValidTarget ==
                 IF IsNodeRef(edge.target)
                 THEN NodeLookup(w.n, edge.target.id) # "undefined"
                 ELSE "x" \in DOMAIN edge.target
             newEdge == [id |-> edge.id, source |-> edge.source,
                         target |-> edge.target, coords |-> edge.coords,
                         tok |-> tok, drawn |-> FALSE]
         IN  IF edge.ref /\ hasValidSource /\ hasValidTarget
             THEN fireEvent(w, "add-edge", edge.id,
                            [op |-> "addEdge", id |-> edge.id, tok |-> tok,
                             edge |-> newEdge])
             ELSE Raise(w, "E_INV_ELEM")

\* The default action of add-edge without its call of _updateEdgeRoute.
addEdgeAction_noRoute(w, j) ==
    LET a == w.s[j].act
    IN  [w EXCEPT !.e = EdgePut(@, a.edge),
                  !.p = InsertFirst(@, Handle("edge", a.id, a.tok))]

\* Default action of add-edge up to the return of _updateEdgeRoute.
addEdgeAction(w, j) ==
    LET a == w.s[j].act
    IN  updateEdgeRoute(
            [w EXCEPT !.e = EdgePut(@, a.edge),
                      !.s = Append(@, [k |-> "act", op |-> "addEdge", id |-> a.id,
                                       ev |-> j, tok |-> a.tok])],
            a.id)

\* The last statement of the add-edge default action appending the edge
\* element instead of inserting it first.
addEdgeAttach_appended(w) ==
    LET f == Last(w.s)
    IN  [w EXCEPT !.p = AppendChild(@, Handle("edge", f.id, f.tok)),
                  !.s = Pop(@)]

\* Default action of add-edge, last statement:
\* this._paper.insertBefore(ref, this._paper.firstChild).
addEdgeAttach(w) ==
    LET f == Last(w.s)
    IN  [w EXCEPT !.p = InsertFirst(@, Handle("edge", f.id, f.tok)),
                  !.s = Pop(@)]

\* ------------------------------------------------- active item -----------

\* updateActiveItem without its two early returns.
updateActiveItem_noEqualityTest(w, item) ==
    LET w1 == fireEvent(w, "update-active-item", "",
                        [op |-> "updateActiveItem", item |-> item])
    IN  [w1 EXCEPT !.s[Len(w1.s)] = Put(@, "data", [oldActiveItem |-> w.a])]

\* Paper.updateActiveItem(activeItem?)
updateActiveItem(w, item) ==
    LET oldActiveItem == w.a
    IN  IF /\ oldActiveItem # NoItem
           /\ item # NoItem
           /\ \A key \in DOMAIN item :
                  key \in DOMAIN oldActiveItem /\ oldActiveItem[key] = item[key]
        THEN w
        ELSE IF item = NoItem /\ oldActiveItem = NoItem THEN w
        ELSE LET w1 == fireEvent(w, "update-active-item", "",
                                 [op |-> "updateActiveItem", item |-> item])
             IN  [w1 EXCEPT !.s[Len(w1.s)] = Put(@, "data", [oldActiveItem |-> oldActiveItem])]

\* Default action of update-active-item.
updateActiveItemAction(w, j) == [w EXCEPT !.a = w.s[j].act.item]

\* ------------------------------------------------- listeners -------------

\* addListener pushing the listener without looking for it in the array.
addListener_noUniquenessTest(w, type, listener) ==
    [w EXCEPT !.l[type] = Append(@, listener)]

\* Paper.addListener(type, listener)
addListener(w, type, listener) ==
    IF \A k \in 1..Len(w.l[type]) : w.l[type][k] # listener
    THEN [w EXCEPT !.l[type] = Append(@, listener)]
    ELSE w

\* Paper.removeListener(type, listener): findIndex gives -1 for a listener
\* that is not in the array, and splice(-1, 1) removes the last element.
removeListener(w, type, listener) ==
    LET ls == w.l[type]
    IN  IF Len(ls) > 0
        THEN LET found == {k \in 1..Len(ls) : ls[k] = listener}
                 listenerIndex == IF found = {} THEN Len(ls)
                                  ELSE CHOOSE k \in found : \A m \in found : k <= m
             IN  [w EXCEPT !.l[type] =
                     SubSeq(ls, 1, listenerIndex - 1) \o SubSeq(ls, listenerIndex + 1, Len(ls))]
        ELSE w

\* ------------------------------------------------- default action --------

\* The closure an event stores, run from its first statement.
RunClosure(w, j) ==
    LET op == w.s[j].act.op
    IN  CASE op = "addNode"          -> addNodeAction(w, j)
          [] op = "removeNode"       -> removeNodeAction(w, j)
          [] op = "moveNode"         -> moveNodeAction(w, j)
          [] op = "addEdge"          -> addEdgeAction(w, j)
          [] op = "removeEdge"       -> removeEdgeAction(w, j)
          [] op = "moveEdge"         -> moveEdgeAction(w, j)
          [] op = "updateActiveItem" -> updateActiveItemAction(w, j)

\* `this._defaultAction = undefined`, reached when the closure has returned;
\* a firing waiting for its own call of defaultAction() then returns.
Returned(w, j) ==
    [w EXCEPT !.s[j].act = NoAct,
              !.s[j].pc = IF Len(w.s) = j /\ @ = "default" THEN "ret" ELSE @]

\* defaultAction() that runs the closure and never drops it.
defaultAction_keepsClosure(w, j) ==
    IF w.s[j].act.op = "none" THEN Returned(w, j)
    ELSE LET w1 == RunClosure([w EXCEPT !.s[j].runs = @ + 1], j)
         IN  IF w1.err # "none" \/ Len(w1.s) > Len(w.s) THEN w1
             ELSE [w1 EXCEPT !.s[j].pc =
                      IF Len(w1.s) = j /\ @ = "default" THEN "ret" ELSE @]

\* evt.defaultAction():
\*   if (this._defaultAction) this._defaultAction(this._data);
\*   this._defaultAction = undefined;
defaultAction(w, j) ==
    IF w.s[j].act.op = "none" THEN Returned(w, j)
    ELSE LET w1 == RunClosure([w EXCEPT !.s[j].runs = @ + 1], j)
         IN  IF w1.err # "none" \/ Len(w1.s) > Len(w.s) THEN w1
             ELSE Returned(w1, j)

\* A default action that called into the Paper resumes after that call.
resumeAction(w) ==
    LET f  == Last(w.s)
        w1 == CASE f.op = "removeNode" -> removeNodeLoop(w)
                []  f.op = "moveNode"  -> moveNodeLoop(w)
                []  f.op = "addEdge"   -> addEdgeAttach(w)
    IN  IF w1.err # "none" \/ Len(w1.s) >= Len(w.s) THEN w1
        ELSE Returned(w1, f.ev)

\* ------------------------------------------------- inputs ----------------

\* A node whose component yields an element, and one whose getNodeElement()
\* yields none.
NodeInputs ==
    {[id |-> "n1", coords |-> CoordsA, ref |-> TRUE],
     [id |-> "n2", coords |-> CoordsB, ref |-> TRUE],
     [id |-> "n2", coords |-> CoordsB, ref |-> FALSE]}

EndPairs ==
    {<<NodeRef("n1"), NodeRef("n2")>>,
     <<LiteralPoint, NodeRef("n1")>>,
     <<NodeRef("constructor"), LiteralPoint>>}

EdgeInputs ==
    {[id |-> id, source |-> ends[1], target |-> ends[2], coords |-> <<>>, ref |-> TRUE] :
        id \in EdgeIds, ends \in EndPairs}
    \cup {[id |-> "e2", source |-> LiteralPoint, target |-> LiteralPoint,
           coords |-> <<>>, ref |-> FALSE]}

CoordInputs == {CoordsA, CoordsB}

ItemInputs == {NoItem, ItemA, ItemB}

\* The one-node, one-edge diagram of the specifications about listeners.
SmallNodeInputs == {[id |-> "n1", coords |-> CoordsA, ref |-> TRUE]}

SmallEdgeInputs ==
    {[id |-> "e1", source |-> NodeRef("n1"), target |-> LiteralPoint,
      coords |-> <<>>, ref |-> TRUE]}

SmallItemInputs == {NoItem, ItemA}

\* ------------------------------------------------- actions: the host -----

Idle == stack = <<>>

AddNode(node) ==
    /\ Idle
    /\ Commit(addNode(Begin("addNode", node.id, node), node))

RemoveNode(id) ==
    /\ Idle
    /\ Commit(removeNode(Begin("removeNode", id, [id |-> id]), id))

AddEdge(edge) ==
    /\ Idle
    /\ Commit(addEdge(Begin("addEdge", edge.id, edge), edge))

RemoveEdge(id) ==
    /\ Idle
    /\ Commit(removeEdge(Begin("removeEdge", id, [id |-> id]), id))

\* getNode(id).coords = newCoords, through a handle the host holds.
SetNodeCoords(id, newCoords) ==
    /\ Idle
    /\ Commit(setNodeCoords(Begin("setNodeCoords", id, newCoords), id, newCoords))

UpdateActiveItem(item) ==
    /\ Idle
    /\ Commit(updateActiveItem(Begin("updateActiveItem", "", item), item))

AddListener(type, listener) ==
    /\ Idle
    /\ Commit(addListener(Begin("addListener", type, [l |-> listener]), type, listener))

RemoveListener(type, listener) ==
    /\ Idle
    /\ Commit(removeListener(Begin("removeListener", type, [l |-> listener]), type, listener))

\* ------------------------------------------------- actions: _fireEvent ---

Firing(pc) == stack # <<>> /\ Last(stack).k = "fire" /\ Last(stack).pc = pc

\* The forEach of _fireEvent, one index.
FireLoop ==
    /\ Firing("loop")
    /\ Last(stack).i <= Last(stack).n
    /\ Commit(forEachListener(World))

\* `evt.defaultAction()` at the end of _fireEvent.
FireDefault ==
    /\ Firing("loop")
    /\ Last(stack).i > Last(stack).n
    /\ Commit(defaultAction([World EXCEPT !.s[Len(stack)].pc = "default",
                                          !.s[Len(stack)].calls = @ + 1],
                             Len(stack)))

\* _fireEvent returns.
FireReturn ==
    /\ Firing("ret")
    /\ Commit([World EXCEPT !.s = Pop(@)])

\* A default action continues after a call it made has returned.
ResumeAction ==
    /\ stack # <<>>
    /\ Last(stack).k = "act"
    /\ Commit(resumeAction(World))

\* ------------------------------------------------- actions: listeners ----

Listening == stack # <<>> /\ Last(stack).k = "lis"

CanAct == Listening /\ Last(stack).ops < MaxOps

\* The listener returns.
LisReturn ==
    /\ Listening
    /\ Commit([World EXCEPT !.s = Pop(@)])

\* evt.preventDefault() on the event the listener was called with.
LisPreventDefault ==
    /\ CanAct
    /\ Commit(preventDefault(Tick, Last(stack).ev))

\* evt.stopPropagation()
LisStopPropagation ==
    /\ CanAct
    /\ Commit(stopPropagation(Tick, Last(stack).ev))

\* evt.defaultAction()
LisDefaultAction ==
    /\ CanAct
    /\ Commit(defaultAction(Tick, Last(stack).ev))

\* ------------------------------------------------- specifications --------

Init0 ==
    /\ nodes = <<>>
    /\ edges = <<>>
    /\ activeItem = NoItem
    /\ gridSize \in GridSizes
    /\ paper = <<>>
    /\ stack = <<>>
    /\ call = [op |-> "none", id |-> "", arg |-> [none |-> TRUE], pre |-> [none |-> TRUE],
               result |-> "ok", events |-> <<>>, lis |-> 0, veto |-> FALSE,
               ret |-> NoRet]
    /\ added = {}
    /\ shape = NoShape

\* A Paper whose plugins registered one observing listener for every type.
Init ==
    /\ Init0
    /\ listeners = [t \in EventTypes |-> <<"L1">>]

Pipeline == FireLoop \/ FireDefault \/ FireReturn \/ ResumeAction

Next ==
    \/ \E node \in NodeInputs : AddNode(node)
    \/ \E id \in NodeIds : RemoveNode(id)
    \/ \E edge \in EdgeInputs : AddEdge(edge)
    \/ \E id \in EdgeIds : RemoveEdge(id)
    \/ \E id \in NodeIds, c \in CoordInputs : SetNodeCoords(id, c)
    \/ \E item \in ItemInputs : UpdateActiveItem(item)
    \/ FireLoop
    \/ FireDefault
    \/ FireReturn
    \/ ResumeAction
    \/ LisReturn

Spec == Init /\ [][Next]_vars

\* ------------------------------------------------- claims under Spec -----

\* C1: after any sequence of addNode and removeNode calls, successful or
\* failing, the ids in the node registry are exactly the ids whose addNode
\* succeeded and that no later removeNode removed.
C1_RegistryIsAddedNotRemoved == Idle => DOMAIN nodes = added

\* C7: removeNode(id) on a node of the registry removes that node and every
\* edge whose source or target is NodeRef(id), and nothing else.
C7_RemoveNodeCascade ==
    (Idle /\ call.op = "removeNode" /\ call.id \in DOMAIN call.pre.n)
        => /\ nodes = Del(call.pre.n, call.id)
           /\ edges = SelectSeq(call.pre.e, LAMBDA r : ~RefersTo(r, call.id))

\* The last public call was an add* with an id its registry already held.
DuplicateAdd ==
    \/ call.op = "addNode" /\ call.id \in DOMAIN call.pre.n
    \/ call.op = "addEdge" /\ HasEdge(call.pre.e, call.id)

\* C8: addNode (addEdge) with an id already in the node (edge) registry
\* fails with E_DUP_ID, fires no event, invokes no listener and leaves both
\* registries as they were, the stored entity being the same object.
C8_DuplicateIdRejected ==
    (Idle /\ DuplicateAdd)
        => /\ call.result = "E_DUP_ID"
           /\ call.events = <<>>
           /\ call.lis = 0
           /\ nodes = call.pre.n
           /\ edges = call.pre.e
           /\ paper = call.pre.p

C8_Witness ==
    /\ Idle
    /\ call.op = "addEdge"
    /\ HasEdge(call.pre.e, call.id)
    /\ call.pre.n # <<>>
    /\ call.result = "E_DUP_ID"

\* The endpoint is a NodeRef naming a node that registry n does not hold.
AbsentRef(p, n) == IsNodeRef(p) /\ p.id \notin DOMAIN n

\* C9: addEdge with a fresh id whose source or target is a NodeRef naming a
\* node absent from the node registry fails with E_INV_ELEM, fires no
\* event and leaves the edge registry unchanged.
C9_AbsentEndpointRejected ==
    (/\ Idle
     /\ call.op = "addEdge"
     /\ ~HasEdge(call.pre.e, call.id)
     /\ AbsentRef(call.arg.source, call.pre.n) \/ AbsentRef(call.arg.target, call.pre.n))
        => /\ call.result = "E_INV_ELEM"
           /\ call.events = <<>>
           /\ edges = call.pre.e

\* C10: when the component yields no element, addNode fails with
\* E_INV_ELEM before the add-node event is fired and before the registry
\* changes: no event, no listener invoked, the id not in the registry.
C10_NoElementFailsFirst ==
    (Idle /\ call.op = "addNode" /\ ~call.arg.ref /\ call.id \notin DOMAIN call.pre.n)
        => /\ call.result = "E_INV_ELEM"
           /\ call.events = <<>>
           /\ call.lis = 0
           /\ call.id \notin DOMAIN nodes

\* C16: with a grid unit greater than 0 every stored node coordinate, as
\* read through the node's handle, is an exact multiple of the grid unit,
\* after addNode and after coordinate writes.
C16_StoredCoordsOnGrid ==
    gridSize > 0 =>
        \A id \in DOMAIN nodes :
            /\ nodes[id].coords.x % gridSize = 0
            /\ nodes[id].coords.y % gridSize = 0

\* C28: an unvetoed removeNode(id) first runs the remove-node listeners,
\* then fires one remove-edge per edge referencing id, in key order, each
\* edge being deleted when its firing returns, and deletes the node last:
\* while the cascade is in progress the node is still in the registry.
C28_RemoveNodeOrder ==
    /\ \A k \in 1..Len(stack) :
           (stack[k].k = "act" /\ stack[k].op = "removeNode") =>
               LET f    == stack[k]
                   done == IF k = Len(stack) THEN f.j - 1 ELSE f.j - 2
               IN  /\ f.id \in DOMAIN nodes
                   /\ stack[f.ev].inv = stack[f.ev].snap
                   /\ call.events[1] = <<"remove-node", f.id>>
                   /\ \A m \in 1..done :
                          RefersTo(EdgeAt(call.pre.e, f.keys[m]), f.id)
                              => ~HasEdge(edges, f.keys[m])
    /\ (stack # <<>> /\ call.op = "removeNode" /\ stack[1].runs = 0)
           => (nodes = call.pre.n /\ edges = call.pre.e)
    /\ (Idle /\ call.op = "removeNode" /\ call.id \in DOMAIN call.pre.n)
           => LET refs == SelectSeq(call.pre.e, LAMBDA r : RefersTo(r, call.id))
              IN  call.events = <<<<"remove-node", call.id>>>>
                      \o [m \in 1..Len(refs) |-> <<"remove-edge", refs[m].id>>]

\* The cascade is firing remove-edge for the second edge of the node.
C28_Witness ==
    /\ Len(stack) >= 3
    /\ stack[2].k = "act" /\ stack[2].op = "removeNode"
    /\ stack[3].k = "fire" /\ stack[3].type = "remove-edge"
    /\ Len(call.events) = 3
    /\ stack[2].id \in DOMAIN nodes

\* C29: a successful addEdge with no vetoing listener fires exactly one
\* add-edge event and then exactly one move-edge event for the new edge,
\* and the edge is in the edge registry while the move-edge listeners run.
C29_AddEdgeFiresAddThenMove ==
    /\ (Idle /\ call.op = "addEdge" /\ call.result = "ok")
           => call.events = <<<<"add-edge", call.id>>, <<"move-edge", call.id>>>>
    /\ \A k \in 2..Len(stack) :
           (/\ stack[k].k = "fire" /\ stack[k].type = "move-edge"
            /\ stack[k - 1].k = "act" /\ stack[k - 1].op = "addEdge")
               => /\ stack[k].tgt = stack[k - 1].id
                  /\ HasEdge(edges, stack[k].tgt)
                  /\ call.events = <<<<"add-edge", call.id>>, <<"move-edge", call.id>>>>

\* An addEdge between two stored nodes has returned normally.
C29_Witness ==
    /\ Idle
    /\ call.op = "addEdge"
    /\ call.result = "ok"
    /\ IsNodeRef(call.arg.source) /\ IsNodeRef(call.arg.target)
    /\ HasEdge(edges, call.id)
    /\ call.lis = 2

\* C30: after an unvetoed change of a node's coordinates exactly one
\* move-edge event has been fired for each edge referring to the node, in
\* key order, and none for another edge; and while such a move-edge event
\* is fired the node's stored coordinates hold the new value.
C30_MoveNodeReroutesItsEdges ==
    /\ (/\ Idle
        /\ call.op = "setNodeCoords"
        /\ call.id \in DOMAIN call.pre.n
        /\ ~areCoordsEqual(call.pre.n[call.id].coords, call.arg))
           => LET refs == SelectSeq(call.pre.e, LAMBDA r : RefersTo(r, call.id))
              IN  call.events = <<<<"move-node", call.id>>>>
                      \o [m \in 1..Len(refs) |-> <<"move-edge", refs[m].id>>]
    /\ \A k \in 2..Len(stack) :
           (/\ stack[k].k = "fire" /\ stack[k].type = "move-edge"
            /\ stack[k - 1].k = "act" /\ stack[k - 1].op = "moveNode")
               => nodes[stack[k - 1].id].coords = call.arg

\* C32: in the child order of the draw surface every attached edge handle
\* precedes every attached node handle, after any sequence of addNode,
\* addEdge, removeNode and removeEdge calls.
C32_EdgesBelowNodes ==
    Idle => \A i, j \in 1..Len(paper) :
                (paper[i].kind = "node" /\ paper[j].kind = "edge") => j < i

\* Two edges were attached after the two nodes they join.
C32_Witness ==
    /\ Idle
    /\ Len(paper) = 4
    /\ paper[1].kind = "edge" /\ paper[2].kind = "edge"
    /\ paper[3].kind = "node" /\ paper[4].kind = "node"

\* C35: whenever no call is in progress, the position at which a node's
\* element is placed on the canvas equals the coordinates stored for the
\* node, after addNode as well as after every coordinate write.
C35_PlacedWhereStored ==
    Idle => \A id \in DOMAIN nodes :
                nodes[id].pos # NoPos => nodes[id].pos = nodes[id].coords

\* ------------------------------------------------- SpecCtl ---------------
\* Listeners that steer the event they are handed (preventDefault,
\* stopPropagation, defaultAction), on a one-node, one-edge diagram.

\* Two listener functions, each registered by a plugin for one event type.
InitCtl ==
    /\ Init0
    /\ \E t1 \in EventTypes, t2 \in EventTypes :
           listeners = [t \in EventTypes |->
                           (IF t = t1 THEN <<"L1">> ELSE <<>>)
                               \o (IF t = t2 THEN <<"L2">> ELSE <<>>)]

NextCtl ==
    \/ \E node \in SmallNodeInputs : AddNode(node)
    \/ RemoveNode("n1")
    \/ \E edge \in SmallEdgeInputs : AddEdge(edge)
    \/ RemoveEdge("e1")
    \/ \E c \in CoordInputs : SetNodeCoords("n1", c)
    \/ \E item \in SmallItemInputs : UpdateActiveItem(item)
    \/ FireLoop
    \/ FireDefault
    \/ FireReturn
    \/ ResumeAction
    \/ LisReturn
    \/ LisPreventDefault
    \/ LisStopPropagation
    \/ LisDefaultAction

SpecCtl == InitCtl /\ [][NextCtl]_vars

\* C2: an event vetoed by a listener before anything invoked its default
\* action never has that action run; and when the event fired by a public
\* call (add-node, remove-node, add-edge, remove-edge, move-node or
\* update-active-item) is vetoed so, the call returns normally with the
\* registries, stored coordinates, active item and draw surface as before.
C2_VetoedMutationNeverApplied ==
    /\ \A k \in 1..Len(stack) :
           (stack[k].k = "fire" /\ stack[k].veto) => stack[k].runs = 0
    /\ (Idle /\ call.veto) => (call.result = "ok" /\ Snap = call.pre)

C2_Witness ==
    /\ Idle
    /\ call.veto
    /\ call.op = "removeNode"
    /\ call.pre.e # <<>>
    /\ call.result = "ok"

\* C4: a completed firing has invoked the listeners registered for the
\* event's type and no others, in registration order, up to the one that
\* stopped propagation, and _fireEvent has then invoked defaultAction()
\* exactly once, so that the closure has run exactly once, or not at all
\* when a listener vetoed it first.
C4_FiringOrder ==
    Firing("ret") =>
        LET f == Last(stack)
        IN  /\ f.snap = listeners[f.type]
            /\ f.inv = IF f.stop = 0 THEN f.snap ELSE SubSeq(f.snap, 1, f.stop)
            /\ f.calls = 1
            /\ f.runs = IF f.veto THEN 0 ELSE 1

C4_Witness ==
    /\ Firing("ret")
    /\ Last(stack).inv = <<"L1", "L2">>
    /\ Last(stack).runs = 1
    /\ Last(stack).type = "remove-edge"

\* C5: once a listener has called stopPropagation() no further listener is
\* invoked in that firing, and the default action still runs by the end of
\* the firing unless a listener vetoed it.
C5_StopPropagation ==
    \A k \in 1..Len(stack) :
        (stack[k].k = "fire" /\ stack[k].stop > 0)
            => /\ Len(stack[k].inv) = stack[k].stop
               /\ (stack[k].pc = "ret" /\ ~stack[k].veto) => stack[k].runs = 1

C5_Witness ==
    /\ Firing("ret")
    /\ Last(stack).stop = 1
    /\ Len(Last(stack).snap) = 2
    /\ Last(stack).runs = 1

\* The mutation of the public call's event (frame 1) is in the state.
Applied ==
    CASE call.op = "addNode"          -> call.id \in DOMAIN nodes
      [] call.op = "removeNode"       -> call.id \notin DOMAIN nodes
      [] call.op = "addEdge"          -> HasEdge(edges, call.id)
      [] call.op = "removeEdge"       -> ~HasEdge(edges, call.id)
      [] call.op = "setNodeCoords"    -> nodes[call.id].coords = call.arg
      [] call.op = "updateActiveItem" -> activeItem = call.arg

\* A listener of the public call's event has invoked its default action,
\* and control is back in the firing of that event or in one of its
\* listeners.
AppliedEarly ==
    /\ stack # <<>>
    /\ stack[1].k = "fire"
    /\ stack[1].pc = "loop"
    /\ stack[1].runs >= 1
    /\ Len(stack) = 1 \/ (Len(stack) = 2 /\ stack[2].k = "lis")

\* C21: a default action a listener invokes early is applied at that moment
\* and stays visible to every listener that runs later in the firing (for
\* add-node the target id is in the registry), and the defaultAction() call
\* that ends the firing then applies nothing further.
C21_EarlyDefaultAction ==
    /\ [](AppliedEarly => (Applied /\ stack[1].act = NoAct))
    /\ [][(AppliedEarly /\ Len(stack) = 1 /\ stack[1].i > stack[1].n)
             => /\ Snap' = Snap
                /\ stack' = <<[stack[1] EXCEPT !.pc = "ret", !.calls = 1]>>
                /\ call'.events = call.events]_vars

C21_Witness ==
    /\ AppliedEarly
    /\ call.op = "addNode"
    /\ Len(stack) = 2
    /\ stack[2].k = "lis"
    /\ stack[2].l = "L2"
    /\ stack[1].inv = <<"L1", "L2">>
    /\ call.id \in DOMAIN nodes

\* C22: preventDefault() and stopPropagation() act on the one event they are
\* called on: a firing none of whose own listeners called either invokes
\* every listener of its type and runs its default action once, whatever
\* was called on the events of enclosing firings or of earlier ones.
C22_FlagsScopedToOneFiring ==
    \A k \in 1..Len(stack) :
        (stack[k].k = "fire" /\ stack[k].pc = "ret"
             /\ stack[k].stop = 0 /\ ~stack[k].veto)
            => /\ stack[k].inv = stack[k].snap
               /\ stack[k].runs = 1

C22_Witness ==
    /\ Len(stack) = 4
    /\ stack[1].k = "fire"
    /\ stack[1].type = "add-edge"
    /\ stack[1].stop = 1
    /\ ~stack[1].can
    /\ stack[4].k = "fire"
    /\ stack[4].type = "move-edge"
    /\ stack[4].pc = "ret"
    /\ stack[4].inv = <<"L2">>
    /\ stack[4].runs = 1

\* C37: as long as nothing invoked the default action of an event, its
\* listeners see the state before the mutation: the target of add-node or
\* add-edge is not in its registry, the target of remove-node or
\* remove-edge still is, the node of move-node has its old coordinates and
\* the active item of update-active-item is the old one.
C37_ListenersSeeStateBefore ==
    \A k \in 1..Len(stack) :
        (stack[k].k = "fire" /\ stack[k].runs = 0) =>
            LET f == stack[k]
            IN  /\ f.type = "add-node" => f.tgt \notin DOMAIN nodes
                /\ f.type = "add-edge" => ~HasEdge(edges, f.tgt)
                /\ f.type = "remove-node" => f.tgt \in DOMAIN nodes
                /\ f.type = "remove-edge" => HasEdge(edges, f.tgt)
                /\ f.type = "move-node" =>
                       nodes[f.tgt].coords = call.pre.n[f.tgt].coords
                /\ f.type = "update-active-item" => activeItem = call.pre.a

\* The second listener of an add-node event runs, the first having
\* returned without forcing the default action.
C37_Witness ==
    /\ Len(stack) = 2
    /\ stack[1].k = "fire" /\ stack[1].type = "add-node" /\ stack[1].runs = 0
    /\ Len(stack[1].inv) = 2
    /\ stack[2].k = "lis"
    /\ stack[1].tgt \notin DOMAIN nodes

\* C33: whenever no call is in progress, every NodeRef source or target of
\* every edge in the edge registry names a node of the node registry, also
\* after vetoed remove-edge events of a cascade and failed endpoint writes.
C33_NoDanglingNodeRef ==
    Idle => \A k \in 1..Len(edges) :
                /\ IsNodeRef(edges[k].source) => edges[k].source.id \in DOMAIN nodes
                /\ IsNodeRef(edges[k].target) => edges[k].target.id \in DOMAIN nodes

\* C38: when the add-edge event of addEdge or the move-node event of a
\* coordinate write is vetoed with preventDefault(), the call fires no
\* move-edge event.
C38_VetoFiresNoMoveEdge ==
    (call.veto /\ call.op \in {"addEdge", "setNodeCoords"})
        => \A k \in 1..Len(call.events) : call.events[k][1] # "move-edge"

\* A vetoed move of a node that an edge refers to has returned.
C38_Witness ==
    /\ Idle
    /\ call.veto
    /\ call.op = "setNodeCoords"
    /\ \E k \in 1..Len(edges) : RefersTo(edges[k], call.id)

\* C39: preventDefault() called after an earlier listener of the same
\* firing invoked defaultAction() undoes nothing: the closure has run once,
\* the event is not vetoed, the mutation of the public call stays applied,
\* and the firing then returns normally, changing nothing more.
C39_LateVetoUndoesNothing ==
    /\ [](\A k \in 1..Len(stack) :
             (stack[k].k = "fire" /\ stack[k].late)
                 => /\ stack[k].runs = 1
                    /\ ~stack[k].veto
                    /\ stack[k].act = NoAct
                    /\ k = 1 => Applied)
    /\ [][(Len(stack) = 1 /\ stack[1].k = "fire" /\ stack[1].late /\ stack[1].pc = "ret")
             => /\ stack' = <<>>
                /\ call'.result = "ok"
                /\ Snap' = Snap]_vars

\* The firing of an add-node event is about to return after a late
\* preventDefault(): the node is in the registry.
C39_Witness ==
    /\ Len(stack) = 1
    /\ stack[1].k = "fire" /\ stack[1].late /\ stack[1].pc = "ret"
    /\ call.op = "addNode"
    /\ call.id \in DOMAIN nodes

\* ------------------------------------------------- SpecLis ---------------
\* Listeners that register and unregister listeners while an event is
\* being fired.

LisFns == ListenerFns \cup {"L3"}

LisTypes == {"update-active-item"}

\* this.paper.addListener(type, fn) from inside a listener.
LisAddListener(type, listener) ==
    /\ CanAct
    /\ Commit(addListener(Tick, type, listener))

\* this.paper.removeListener(type, fn) from inside a listener.
LisRemoveListener(type, listener) ==
    /\ CanAct
    /\ Commit(removeListener(Tick, type, listener))

InitLis ==
    /\ Init0
    /\ listeners = [t \in EventTypes |-> <<>>]

NextLis ==
    \/ \E t \in LisTypes, l \in LisFns : AddListener(t, l)
    \/ \E t \in LisTypes, l \in LisFns : RemoveListener(t, l)
    \/ \E item \in SmallItemInputs : UpdateActiveItem(item)
    \/ FireLoop
    \/ FireDefault
    \/ FireReturn
    \/ LisReturn
    \/ \E t \in LisTypes, l \in LisFns : LisAddListener(t, l)
    \/ \E t \in LisTypes, l \in LisFns : LisRemoveListener(t, l)

SpecLis == InitLis /\ [][NextLis]_vars

\* C6: the listeners a firing invokes are those registered when it started,
\* each exactly once and in order, whatever listeners are added or removed
\* while it runs (propagation not being stopped).
C6_FiringUsesSnapshot ==
    (Firing("ret") /\ Last(stack).stop = 0) => Last(stack).inv = Last(stack).snap

\* The listener of the last addListener / removeListener call was in the
\* array of its type when the call was made.
WasRegistered ==
    \E k \in 1..Len(call.pre.l[call.id]) : call.pre.l[call.id][k] = call.arg.l

\* C14: removeListener(type, fn) with fn not registered for type leaves
\* every listener list as it was, same listeners in the same order.
C14_RemoveAbsentListenerIsNoOp ==
    (Idle /\ call.op = "removeListener" /\ ~WasRegistered)
        => listeners = call.pre.l

\* C15: no listener list holds a listener twice; addListener appends a new
\* listener after those registered before and changes nothing for one
\* already registered; removeListener of a registered listener removes
\* exactly that listener and keeps the others in their order.
C15_ListenerListsUniqueOrdered ==
    /\ \A t \in EventTypes : \A i, j \in 1..Len(listeners[t]) :
           listeners[t][i] = listeners[t][j] => i = j
    /\ (Idle /\ call.op = "addListener")
           => listeners = [call.pre.l EXCEPT ![call.id] =
                              IF WasRegistered THEN @ ELSE Append(@, call.arg.l)]
    /\ (Idle /\ call.op = "removeListener" /\ WasRegistered)
           => listeners = [call.pre.l EXCEPT ![call.id] =
                              SelectSeq(@, LAMBDA f : f # call.arg.l)]

C15_Witness ==
    /\ Idle
    /\ call.op = "removeListener"
    /\ call.pre.l["update-active-item"] = <<"L2", "L1", "L3">>
    /\ call.arg.l = "L1"
    /\ listeners["update-active-item"] = <<"L2", "L3">>

\* ------------------------------------------------- SpecReent -------------
\* Listeners that call back into the Paper and that keep the events they
\* were handed.

CanNest == CanAct /\ Len(stack) < MaxDepth

\* A listener calls defaultAction() on an event of an enclosing firing, which
\* a listener of that firing kept a reference to.
LisOuterDefaultAction(j) ==
    /\ CanNest
    /\ j < Last(stack).ev
    /\ stack[j].k = "fire"
    /\ stack[j].inv # <<>>
    /\ Commit(defaultAction(Tick, j))

LisRemoveNode(id) ==
    /\ CanNest
    /\ Commit(removeNode(Tick, id))

LisRemoveEdge(id) ==
    /\ CanNest
    /\ Commit(removeEdge(Tick, id))

NextReent ==
    \/ \E node \in SmallNodeInputs : AddNode(node)
    \/ RemoveNode("n1")
    \/ \E edge \in SmallEdgeInputs : AddEdge(edge)
    \/ RemoveEdge("e1")
    \/ FireLoop
    \/ FireDefault
    \/ FireReturn
    \/ ResumeAction
    \/ LisReturn
    \/ LisDefaultAction
    \/ \E j \in 1..MaxDepth : LisOuterDefaultAction(j)
    \/ LisRemoveNode("n1")
    \/ LisRemoveEdge("e1")

SpecReent == Init /\ [][NextReent]_vars

\* C3: the default-action closure of an event is executed at most once over
\* the event's lifetime, re-entrant calls of defaultAction() included.
C3_DefaultActionAtMostOnce ==
    \A k \in 1..Len(stack) : stack[k].k = "fire" => stack[k].runs <= 1

\* C34: whenever no call is in progress, the handles attached to the draw
\* surface are exactly the handles of the entities in the node and edge
\* registries, also after failed calls and re-entrant calls of listeners.
C34_SurfaceMatchesRegistries ==
    Idle => {paper[k] : k \in 1..Len(paper)}
                = {Handle("node", id, nodes[id].tok) : id \in DOMAIN nodes}
                      \cup {Handle("edge", edges[k].id, edges[k].tok) : k \in 1..Len(edges)}

\* ------------------------------------------------- SpecHandle ------------
\* The host reads entities and writes their coordinates and end points
\* through the handles (instances) the Paper hands out.

\* getNode testing `this._nodes[id]` for truthiness instead of hasOwnProperty:
\* an inherited member passes and its `.instance` (undefined) is returned.
getNode_byTruthiness(w, id) ==
    IF NodeLookup(w.n, id) = "node"
    THEN [w EXCEPT !.c.ret = Handle("node", id, w.n[id].tok)]
    ELSE IF NodeLookup(w.n, id) = "inherited"
    THEN w
    ELSE Raise(w, "E_NO_ID")

\* Paper.getNode(id)
getNode(w, id) ==
    IF id \in DOMAIN w.n
    THEN [w EXCEPT !.c.ret = Handle("node", id, w.n[id].tok)]
    ELSE Raise(w, "E_NO_ID")

\* Paper.getEdge(id)
getEdge(w, id) ==
    IF HasEdge(w.e, id)
    THEN [w EXCEPT !.c.ret = Handle("edge", id, EdgeAt(w.e, id).tok)]
    ELSE Raise(w, "E_NO_ID")

\* this._edges[id].<field> = value, on the stored edge object.
EdgeSet(e, id, field, value) ==
    [k \in 1..Len(e) |-> IF e[k].id = id THEN [e[k] EXCEPT ![field] = value] ELSE e[k]]

\* Paper._setEdgeSource(id, newSource), reached through instance.source = ...
setEdgeSource(w, id, newSource) ==
    IF HasEdge(w.e, id)
    THEN updateEdgeRoute([w EXCEPT !.e = EdgeSet(@, id, "source", newSource)], id)
    ELSE Raise(w, "E_NO_ID")

\* Paper._setEdgeTarget(id, newTarget), reached through instance.target = ...
setEdgeTarget(w, id, newTarget) ==
    IF HasEdge(w.e, id)
    THEN updateEdgeRoute([w EXCEPT !.e = EdgeSet(@, id, "target", newTarget)], id)
    ELSE Raise(w, "E_NO_ID")

\* Paper._setEdgeCoords(id, newCoords), reached through instance.coords = ...
setEdgeCoords(w, id, newCoords) ==
    IF HasEdge(w.e, id)
    THEN updateEdgeRoute([w EXCEPT !.e = EdgeSet(@, id, "coords", newCoords)], id)
    ELSE Raise(w, "E_NO_ID")

GetNode(id) ==
    /\ Idle
    /\ Commit(getNode(Begin("getNode", id, [id |-> id]), id))

GetEdge(id) ==
    /\ Idle
    /\ Commit(getEdge(Begin("getEdge", id, [id |-> id]), id))

\* getEdge(id).source = newSource, through a handle the host holds.
SetEdgeSource(id, newSource) ==
    /\ Idle
    /\ Commit(setEdgeSource(Begin("setEdgeSource", id, newSource), id, newSource))

SetEdgeTarget(id, newTarget) ==
    /\ Idle
    /\ Commit(setEdgeTarget(Begin("setEdgeTarget", id, newTarget), id, newTarget))

SetEdgeCoords(id, newCoords) ==
    /\ Idle
    /\ Commit(setEdgeCoords(Begin("setEdgeCoords", id, newCoords), id, newCoords))

\* A point off the grid that snaps to CoordsB.
CoordsC == [x |-> 1, y |-> 2]

HandleNodeInputs == {[id |-> "n1", coords |-> CoordsB, ref |-> TRUE]}

HandleCoordInputs == {CoordsA, CoordsB, CoordsC}

\* Ids asked for: a node that can be stored, one that never is, and a name
\* every object inherits.
LookupIds == {"n1", "n2", "constructor"}

EndPointInputs == {NodeRef("n1"), NodeRef("n2"), LiteralPoint}

WaypointInputs == {<<>>, <<CoordsB>>}

NextHandle ==
    \/ \E node \in HandleNodeInputs : AddNode(node)
    \/ \E id \in LookupIds : RemoveNode(id)
    \/ \E edge \in SmallEdgeInputs : AddEdge(edge)
    \/ \E id \in EdgeIds : RemoveEdge(id)
    \/ \E id \in LookupIds : GetNode(id)
    \/ \E id \in EdgeIds : GetEdge(id)
    \/ \E id \in NodeIds, c \in HandleCoordInputs : SetNodeCoords(id, c)
    \/ \E id \in EdgeIds, p \in EndPointInputs : SetEdgeSource(id, p)
    \/ \E id \in EdgeIds, p \in EndPointInputs : SetEdgeTarget(id, p)
    \/ \E id \in EdgeIds, c \in WaypointInputs : SetEdgeCoords(id, c)
    \/ FireLoop
    \/ FireDefault
    \/ FireReturn
    \/ ResumeAction
    \/ LisReturn
    \/ LisPreventDefault

SpecHandle == Init /\ [][NextHandle]_vars

\* The last public call named an id its registry did not hold.
AbsentIdCall ==
    \/ call.op \in {"getNode", "removeNode"} /\ call.id \notin DOMAIN call.pre.n
    \/ call.op \in {"getEdge", "removeEdge"} /\ ~HasEdge(call.pre.e, call.id)

\* C11: getNode, getEdge, removeNode and removeEdge with an id absent from
\* the registry fail with E_NO_ID, fire no event and change no state;
\* getNode and getEdge with a present id return the handle of the entity
\* stored under that id.
C11_NotFoundAndLookup ==
    /\ (Idle /\ AbsentIdCall)
           => /\ call.result = "E_NO_ID"
              /\ call.events = <<>>
              /\ call.lis = 0
              /\ Snap = call.pre
    /\ (Idle /\ call.op = "getNode" /\ call.id \in DOMAIN call.pre.n)
           => /\ call.result = "ok"
              /\ call.ret = Handle("node", call.id, nodes[call.id].tok)
              /\ Snap = call.pre
    /\ (Idle /\ call.op = "getEdge" /\ HasEdge(call.pre.e, call.id))
           => /\ call.result = "ok"
              /\ call.ret = Handle("edge", call.id, EdgeAt(edges, call.id).tok)
              /\ Snap = call.pre

C11_Witness ==
    /\ Idle
    /\ call.op = "getNode"
    /\ call.id = "constructor"
    /\ call.result = "E_NO_ID"
    /\ call.pre.e # <<>>

\* The coordinates after grid snapping.
SnapCoords(c) ==
    [x |-> roundToNearestDefault(c.x, gridSize),
     y |-> roundToNearestDefault(c.y, gridSize)]

\* C17: writing to a node's coords a value that after grid snapping equals
\* the node's stored coordinates fires no move-node and no move-edge event
\* and leaves the stored coordinates and the handle's position unchanged.
C17_SnappedEqualWriteIsNoOp ==
    (/\ Idle
     /\ call.op = "setNodeCoords"
     /\ call.id \in DOMAIN call.pre.n
     /\ SnapCoords(call.arg) = call.pre.n[call.id].coords)
        => /\ call.events = <<>>
           /\ nodes = call.pre.n
           /\ paper = call.pre.p

\* The value the last edge write replaced, in the registry before the call.
StoredBefore ==
    LET edge == EdgeAt(call.pre.e, call.id)
    IN  CASE call.op = "setEdgeSource" -> edge.source
          [] call.op = "setEdgeTarget" -> edge.target
          [] call.op = "setEdgeCoords" -> edge.coords

EdgeWrite ==
    /\ Idle
    /\ call.op \in {"setEdgeSource", "setEdgeTarget", "setEdgeCoords"}
    /\ HasEdge(call.pre.e, call.id)

\* C18: writing to an edge's source, target or waypoints a value equal to
\* the stored one is a no-op: no move-edge event and no state change.
C18_EqualEdgeWriteIsNoOp ==
    (EdgeWrite /\ call.arg = StoredBefore)
        => /\ call.events = <<>>
           /\ call.lis = 0
           /\ Snap = call.pre

\* C19: re-anchoring an edge (writing its source or target) to a NodeRef
\* naming a node absent from the node registry fails, and the stored source
\* and target of the edge are afterwards what they were before.
C19_ReanchorToAbsentNodeKeepsEnds ==
    (/\ EdgeWrite
     /\ call.op \in {"setEdgeSource", "setEdgeTarget"}
     /\ AbsentRef(call.arg, call.pre.n))
        => /\ call.result \notin {"ok", "pending"}
           /\ HasEdge(edges, call.id)
           /\ EdgeAt(edges, call.id).source = EdgeAt(call.pre.e, call.id).source
           /\ EdgeAt(edges, call.id).target = EdgeAt(call.pre.e, call.id).target

\* C31: for a write to a stored edge's source, target or waypoints the
\* move-edge listeners run before the stored value changes, and a listener
\* calling preventDefault() on that event leaves the stored source, target
\* and waypoints at their previous values.
C31_EdgeWriteWrappedInEvent ==
    (/\ call.op \in {"setEdgeSource", "setEdgeTarget", "setEdgeCoords"}
     /\ HasEdge(call.pre.e, call.id))
        => LET old == EdgeAt(call.pre.e, call.id)
               now == EdgeAt(edges, call.id)
               same == /\ now.source = old.source
                       /\ now.target = old.target
                       /\ now.coords = old.coords
           IN  /\ (stack # <<>> /\ stack[1].runs = 0) => same
               /\ (Idle /\ call.veto) => same

\* ------------------------------------------------- SpecItem --------------
\* The active item, with items that carry keys beyond the three required
\* ones (IActiveItem admits any further string key).

\* ItemA with one more key.
ItemC == [elementType |-> "node", id |-> "n1", paperItemState |-> "selected",
          tag |-> "x"]

WideItemInputs == {NoItem, ItemA, ItemB, ItemC}

NextItem ==
    \/ \E item \in WideItemInputs : UpdateActiveItem(item)
    \/ FireLoop
    \/ FireDefault
    \/ FireReturn
    \/ LisReturn
    \/ LisPreventDefault
    \/ LisDefaultAction

SpecItem == Init /\ [][NextItem]_vars

\* C12: updateActiveItem(item) with item key-wise identical to the current
\* active item, or with both absent, fires no event and leaves the active
\* item as it was.
C12_SameItemIsNoOp ==
    (Idle /\ call.op = "updateActiveItem" /\ call.arg = call.pre.a)
        => /\ call.result = "ok"
           /\ call.events = <<>>
           /\ call.lis = 0
           /\ activeItem = call.pre.a

C12_Witness ==
    /\ Idle
    /\ call.op = "updateActiveItem"
    /\ call.arg = ItemC
    /\ call.pre.a = ItemC
    /\ call.events = <<>>

\* C13: updateActiveItem(item) with item not key-wise identical to the
\* current active item (a value differs, one has a key the other lacks, or
\* exactly one is absent) fires exactly one update-active-item event whose
\* data.oldActiveItem is the previous active item, and unless the event is
\* vetoed the active item afterwards is the passed item.
C13_DifferentItemFiresOnce ==
    /\ \A k \in 1..Len(stack) :
           (stack[k].k = "fire" /\ stack[k].type = "update-active-item")
               => stack[k].data.oldActiveItem = call.pre.a
    /\ (Idle /\ call.op = "updateActiveItem" /\ call.arg # call.pre.a)
           => /\ call.result = "ok"
              /\ Len(call.events) = 1
              /\ call.events[1][1] = "update-active-item"
              /\ ~call.veto => activeItem = call.arg

\* ------------------------------------------------- SpecCtor --------------
\* The constructor of Paper from the loading of the initial conditions on:
\* its frame is the bottom of the stack until it returns.

PluginA == [name |-> "A", init |-> TRUE]

PluginB == [name |-> "B", init |-> TRUE]

\* A plugin object without an initialize method.
PluginN == [name |-> "N", init |-> FALSE]

InitialNodeLists ==
    {<<>>,
     <<[id |-> "n1", coords |-> CoordsA, ref |-> TRUE]>>,
     <<[id |-> "n1", coords |-> CoordsA, ref |-> TRUE],
       [id |-> "n2", coords |-> CoordsB, ref |-> TRUE]>>,
     <<[id |-> "n1", coords |-> CoordsA, ref |-> TRUE],
       [id |-> "n1", coords |-> CoordsB, ref |-> TRUE]>>}

InitialEdgeLists == {<<>>} \cup {<<edge>> : edge \in SmallEdgeInputs}

PluginLists ==
    {<<>>, <<PluginA>>, <<PluginN, PluginA>>, <<PluginB, PluginA>>,
     <<PluginA, PluginN, PluginB>>}

\* if (plugin.initialize) that takes every plugin to have the method.
hasInitialize_ignored(plugin) == TRUE

\* if (plugin.initialize)
hasInitialize(plugin) == plugin.init

\* The constructor from its position c.pc, c.i up to the next call that
\* leaves a frame on the stack, or to its end.  log is history: the calls
\* the constructor has made, in order.
RECURSIVE constructorLoop(_)
constructorLoop(w) ==
    LET top == Len(w.s)
        c   == w.s[top]
    IN  CASE c.pc = "nodes" ->
                IF c.i > Len(c.nodes)
                THEN constructorLoop([w EXCEPT !.s[top].pc = "edges", !.s[top].i = 1])
                ELSE addNode([w EXCEPT !.s[top].i = c.i + 1,
                                       !.s[top].log = Append(@, <<"addNode", c.nodes[c.i].id>>)],
                             c.nodes[c.i])
          [] c.pc = "edges" ->
                IF c.i > Len(c.edges)
                THEN constructorLoop([w EXCEPT !.s[top].pc = "plugins", !.s[top].i = 1])
                ELSE addEdge([w EXCEPT !.s[top].i = c.i + 1,
                                       !.s[top].log = Append(@, <<"addEdge", c.edges[c.i].id>>)],
                             c.edges[c.i])
          [] c.pc = "plugins" ->
                IF c.i > Len(c.plugins)
                THEN [w EXCEPT !.s[top].pc = "done"]
                ELSE IF hasInitialize(c.plugins[c.i])
                THEN [w EXCEPT !.s = Append(
                         [@ EXCEPT ![top].i = c.i + 1,
                                   ![top].log = Append(@, <<"initialize", c.plugins[c.i].name>>)],
                         [k |-> "plug", name |-> c.plugins[c.i].name, ops |-> 0])]
                ELSE constructorLoop([w EXCEPT !.s[top].i = c.i + 1])

Constructing(pcs) ==
    stack # <<>> /\ Last(stack).k = "ctor" /\ Last(stack).pc \in pcs

\* The constructor runs on after the call it made has returned.
Construct ==
    /\ Constructing({"nodes", "edges", "plugins"})
    /\ Commit(constructorLoop(World))

\* The constructor returns: the Paper is handed to the host.
ConstructReturn ==
    /\ Constructing({"done"})
    /\ Commit([World EXCEPT !.s = Pop(@)])

\* plugin.initialize(paper, ...) is running.
Initializing == stack # <<>> /\ Last(stack).k = "plug"

PlugReturn ==
    /\ Initializing
    /\ Commit([World EXCEPT !.s = Pop(@)])

\* paper.addListener(type, fn) from initialize.
PlugAddListener(type, listener) ==
    /\ Initializing
    /\ Last(stack).ops < MaxOps
    /\ Commit(addListener(Tick, type, listener))

\* paper.removeNode(id) from initialize.
PlugRemoveNode(id) ==
    /\ Initializing
    /\ Last(stack).ops < MaxOps
    /\ Commit(removeNode(Tick, id))

\* `delete nodes[id]` from initialize, on the third argument it was called
\* with: the constructor passes this._nodes itself, not a copy.
PlugDeleteFromRegistry(id) ==
    /\ Initializing
    /\ Last(stack).ops < MaxOps
    /\ id \in DOMAIN nodes
    /\ Commit([Tick EXCEPT !.n = Del(@, id)])

\* The state when the constructor has set up its fields and the svg
\* (line 86) and is about to load the initial conditions.
InitCtor ==
    /\ nodes = <<>>
    /\ edges = <<>>
    /\ activeItem = NoItem
    /\ gridSize \in GridSizes
    /\ paper = <<>>
    /\ listeners = [t \in EventTypes |-> <<>>]
    /\ added = {}
    /\ shape = NoShape
    /\ call = [op |-> "constructor", id |-> "", arg |-> [none |-> TRUE],
               pre |-> [none |-> TRUE], result |-> "pending", events |-> <<>>,
               lis |-> 0, veto |-> FALSE, ret |-> NoRet]
    /\ \E ns \in InitialNodeLists, es \in InitialEdgeLists, ps \in PluginLists :
           stack = <<[k |-> "ctor", pc |-> "nodes", i |-> 1, nodes |-> ns,
                      edges |-> es, plugins |-> ps, log |-> <<>>]>>

NextCtor ==
    \/ Construct
    \/ ConstructReturn
    \/ PlugReturn
    \/ \E t \in {"remove-node", "remove-edge"}, l \in ListenerFns : PlugAddListener(t, l)
    \/ \E id \in NodeIds : PlugRemoveNode(id)
    \/ \E id \in NodeIds : PlugDeleteFromRegistry(id)
    \/ FireLoop
    \/ FireDefault
    \/ FireReturn
    \/ ResumeAction
    \/ LisReturn

SpecCtor == InitCtor /\ [][NextCtor]_vars

\* What a constructor given these lists does, in order: every initial node,
\* then every initial edge, then initialize of each plugin that has one.
ConstructionOrder(ns, es, ps) ==
    [k \in 1..Len(ns) |-> <<"addNode", ns[k].id>>]
        \o [k \in 1..Len(es) |-> <<"addEdge", es[k].id>>]
        \o LET inits == SelectSeq(ps, LAMBDA q : q.init)
           IN  [k \in 1..Len(inits) |-> <<"initialize", inits[k].name>>]

\* C20: during construction initialize is invoked exactly once on each
\* plugin that has it, in the order of the plugins list, and only after
\* every initial node and then every initial edge has been added.
C20_PluginsInitializedInOrder ==
    \A j \in 1..Len(stack) :
        stack[j].k = "ctor" =>
            LET c     == stack[j]
                order == ConstructionOrder(c.nodes, c.edges, c.plugins)
            IN  /\ Len(c.log) <= Len(order)
                /\ c.log = SubSeq(order, 1, Len(c.log))
                /\ c.pc = "done" => c.log = order

\* C24: what initialize does to the registry objects it received changes
\* nothing the Paper observes: when construction ends, every initial node
\* that no remove-node event removed is still in the node registry.
C24_PluginHasNoMutationPath ==
    Constructing({"done"}) =>
        \A k \in 1..Len(Last(stack).nodes) :
            LET id == Last(stack).nodes[k].id
            IN  (\A e \in 1..Len(call.events) : call.events[e] # <<"remove-node", id>>)
                    => id \in DOMAIN nodes

C20_Witness ==
    /\ Constructing({"done"})
    /\ Last(stack).log = <<<<"addNode", "n1">>, <<"addNode", "n2">>, <<"addEdge", "e1">>,
                           <<"initialize", "A">>, <<"initialize", "B">>>>
    /\ "n1" \notin DOMAIN nodes
    /\ listeners["remove-edge"] # <<>>

\* ------------------------------------------------- SpecThrow -------------
\* Listeners that fail.

\* The listener throws: nothing in _fireEvent or in the Paper catches.
LisThrow ==
    /\ Listening
    /\ Commit(Raise(World, "ListenerError"))

NextThrow ==
    \/ \E node \in SmallNodeInputs : AddNode(node)
    \/ RemoveNode("n1")
    \/ \E edge \in SmallEdgeInputs : AddEdge(edge)
    \/ RemoveEdge("e1")
    \/ \E c \in CoordInputs : SetNodeCoords("n1", c)
    \/ \E item \in SmallItemInputs : UpdateActiveItem(item)
    \/ FireLoop
    \/ FireDefault
    \/ FireReturn
    \/ ResumeAction
    \/ LisReturn
    \/ LisThrow

SpecThrow == Init /\ [][NextThrow]_vars

\* C23: a listener that throws ends the firing (no later listener, no
\* default action from that firing) and the failure leaves the public call
\* with the registries and the active item as they were before the call.
C23_ListenerFailureLeavesState ==
    (Idle /\ call.result = "ListenerError")
        => /\ nodes = call.pre.n
           /\ edges = call.pre.e
           /\ activeItem = call.pre.a

\* ------------------------------------------- GenericTextShape ------------

\* Widths and heights a text-shape node is built with or set to.
ShapeSizes == 0..9

ShapeGridSizes == {1, 2}

\* transformProperties(properties): the growth unit is twice the grid size
\* and the initial width and height are rounded to it.
transformProperties(properties) ==
    LET growthUnit == properties.gridSize * 2
    IN  [growthUnit |-> growthUnit,
         width  |-> roundToNearest(properties.width, growthUnit, growthUnit),
         height |-> roundToNearest(properties.height, growthUnit, growthUnit),
         hasShape |-> properties.hasShape]

\* set width(width)
setWidth(sh, width) ==
    [sh EXCEPT !.width = roundToNearest(width, sh.growthUnit, sh.growthUnit)]

\* set height(height): the rounded height is written to _properties.width.
setHeight(sh, height) ==
    [sh EXCEPT !.width = roundToNearest(height, sh.growthUnit, sh.growthUnit)]

\* One setter call on the text-shape node: E_NO_ELEM when the subclass
\* created no _shape element, the write otherwise.
ShapeCall(op, arg, after) ==
    /\ shape' = IF shape.hasShape THEN after ELSE shape
    /\ call' = [op |-> op, id |-> "", arg |-> arg, pre |-> shape,
                result |-> IF shape.hasShape THEN "ok" ELSE "E_NO_ELEM",
                events |-> <<>>, lis |-> 0, veto |-> FALSE, ret |-> NoRet]
    /\ UNCHANGED <<nodes, edges, activeItem, listeners, gridSize, paper, stack, added>>

\* A text-shape node constructed by a subclass that may or may not create
\* the _shape element in its initialize.
InitShape ==
    /\ nodes = <<>>
    /\ edges = <<>>
    /\ activeItem = NoItem
    /\ gridSize \in GridSizes
    /\ paper = <<>>
    /\ stack = <<>>
    /\ added = {}
    /\ listeners = [t \in EventTypes |-> <<>>]
    /\ call = [op |-> "new", id |-> "", arg |-> [none |-> TRUE], pre |-> [none |-> TRUE],
               result |-> "ok", events |-> <<>>, lis |-> 0, veto |-> FALSE,
               ret |-> NoRet]
    /\ \E g \in ShapeGridSizes, w \in ShapeSizes, h \in ShapeSizes, el \in BOOLEAN :
           shape = transformProperties([gridSize |-> g, width |-> w, height |-> h,
                                        hasShape |-> el])

NextShape ==
    \/ \E width \in ShapeSizes : ShapeCall("setWidth", width, setWidth(shape, width))
    \/ \E height \in ShapeSizes : ShapeCall("setHeight", height, setHeight(shape, height))

SpecShape == InitShape /\ [][NextShape]_vars

\* C25: after a successful write of h to a text-shape node's height, its
\* height reads h rounded to the growth unit and its width is as before.
C25_HeightWriteRoundsAndKeepsWidth ==
    (call.op = "setHeight" /\ call.result = "ok")
        => /\ shape.height = roundToNearest(call.arg, shape.growthUnit, shape.growthUnit)
           /\ shape.width = call.pre.width

\* ------------------------------------------------ roundToNearest --------

\* Values, units and minimums roundToNearest is applied to.
RoundValues == -4..8

RoundUnits == 0..3

RoundMinimums == 0..3

\* How often the result is fed back as the value.
MaxApply == 3

\* No application yet: call.arg holds value, unit and minimum, and
\* call.events will hold the successive results.
InitRound ==
    /\ nodes = <<>>
    /\ edges = <<>>
    /\ activeItem = NoItem
    /\ gridSize \in GridSizes
    /\ paper = <<>>
    /\ stack = <<>>
    /\ added = {}
    /\ shape = NoShape
    /\ listeners = [t \in EventTypes |-> <<>>]
    /\ \E v \in RoundValues, u \in RoundUnits, m \in RoundMinimums :
           call = [op |-> "roundToNearest", id |-> "",
                   arg |-> [value |-> v, unit |-> u, minimum |-> m],
                   pre |-> [none |-> TRUE], result |-> "ok", events |-> <<>>,
                   lis |-> 0, veto |-> FALSE, ret |-> NoRet]

\* roundToNearest applied to the value, then again to each result.
RoundAgain ==
    /\ Len(call.events) < MaxApply
    /\ LET value == IF call.events = <<>> THEN call.arg.value ELSE Last(call.events)
           rounded == roundToNearest(value, call.arg.unit, call.arg.minimum)
       IN  call' = [call EXCEPT !.events = Append(@, rounded), !.ret = rounded]
    /\ UNCHANGED <<nodes, edges, activeItem, listeners, gridSize, paper, stack, added,
                   shape>>

SpecRound == InitRound /\ [][RoundAgain]_vars

\* C26: roundToNearest is idempotent for every value, unit and minimum of
\* the range (a second application returns what the first returned), and
\* with unit 0 it returns the value unchanged.
C26_RoundToNearestIdempotent ==
    /\ Len(call.events) >= 2 => call.events[2] = call.events[1]
    /\ (Len(call.events) >= 1 /\ call.arg.unit = 0) => call.events[1] = call.arg.value

\* ------------------------------------------------- SpecCascade -----------
\* Node n1 with up to two edges, and listeners that remove edges.

\* Two edges that both start at node n1.
CascadeEdgeInputs ==
    {[id |-> id, source |-> NodeRef("n1"), target |-> LiteralPoint,
      coords |-> <<>>, ref |-> TRUE] : id \in EdgeIds}

NextCascade ==
    \/ \E node \in SmallNodeInputs : AddNode(node)
    \/ RemoveNode("n1")
    \/ \E edge \in CascadeEdgeInputs : AddEdge(edge)
    \/ FireLoop
    \/ FireDefault
    \/ FireReturn
    \/ ResumeAction
    \/ LisReturn
    \/ \E id \in EdgeIds : LisRemoveEdge(id)

SpecCascade == Init /\ [][NextCascade]_vars

\* C27: removeNode of a stored node during which listeners removed other
\* edges of the node (every removeEdge they called found its edge, and no
\* edge was removed twice) completes without error and leaves neither the
\* node nor any edge that refers to it.
C27_CascadeOnStableSnapshot ==
    (/\ Idle
     /\ call.op = "removeNode"
     /\ call.id \in DOMAIN call.pre.n
     /\ call.result # "E_NO_ID"
     /\ \A k, m \in 1..Len(call.events) : call.events[k] = call.events[m] => k = m)
        => /\ call.result = "ok"
           /\ call.id \notin DOMAIN nodes
           /\ \A k \in 1..Len(edges) : ~RefersTo(edges[k], call.id)

\* ------------------------------------------------- SpecReadd -------------
\* Listeners that add, from inside a firing, the entity being added.

LisAddNode(node) ==
    /\ CanNest
    /\ Commit(addNode(Tick, node))

LisAddEdge(edge) ==
    /\ CanNest
    /\ Commit(addEdge(Tick, edge))

NextReadd ==
    \/ \E node \in SmallNodeInputs : AddNode(node)
    \/ \E edge \in SmallEdgeInputs : AddEdge(edge)
    \/ FireLoop
    \/ FireDefault
    \/ FireReturn
    \/ ResumeAction
    \/ LisReturn
    \/ \E node \in SmallNodeInputs : LisAddNode(node)
    \/ \E edge \in SmallEdgeInputs : LisAddEdge(edge)

SpecReadd == Init /\ [][NextReadd]_vars

\* C36: addNode and addEdge never replace an entity held in a registry:
\* as long as an id stays in its registry the object stored under it is the
\* same one, re-entrant adds of the same id by listeners included.
C36_AddNeverReplaces ==
    [][/\ \A id \in DOMAIN nodes \cap DOMAIN nodes' : nodes'[id].tok = nodes[id].tok
       /\ \A k \in 1..Len(edges) :
              HasEdge(edges', edges[k].id) => EdgeAt(edges', edges[k].id).tok = edges[k].tok]_vars

====
